---- MODULE Spec2Model ----
(***************************************************************************)
(* Model of the companion edit page (CompanionIdPage) and of the client    *)
(* form it renders (CompanionForm): authentication guard, owner-scoped     *)
(* lookup, schema validation, the PATCH/POST submission and what follows   *)
(* the request (notification, refresh, navigation).                        *)
(*                                                                         *)
(* A string is modelled by its length, which is all the schema reads       *)
(* (z.string().min(n) compares value.length with n); the value undefined   *)
(* is kept apart from every string.                                        *)
(***************************************************************************)
EXTENDS Integers, Sequences, FiniteSets

\* ------------------------------------------------------------------ bounds

\* handleSubmit invocations followed per rendered form
MaxSubmits == 2

\* --------------------------------------------------------- program constants

NameMin == 1
DescriptionMin == 1
InstructionsMin == 200
SeedMin == 200
SrcMin == 1
CategoryIdMin == 1

\* categoryId: undefined in the create-mode defaults (not a string)
Undefined == -1

\* initialData: Companion | null
null == [null |-> TRUE]

NoError == ""

Fields == {"name", "description", "instructions", "seed", "src", "categoryId"}

\* ------------------------------------------------------------ environment

NoUser == "none"
Users == {"u1", "u2"}

\* rows of the Category table, as category.findMany() returns them
Categories == {[id |-> "cat1", name |-> "Famous People"]}

\* rows of the Companion table; strings by length
Companions ==
  { [id |-> "c1", userId |-> "u1", name |-> 1, description |-> 1,
     instructions |-> InstructionsMin, seed |-> SeedMin, src |-> 1,
     categoryId |-> Len("cat1")],
    [id |-> "c2", userId |-> "u2", name |-> 1, description |-> 1,
     instructions |-> InstructionsMin, seed |-> SeedMin, src |-> 1,
     categoryId |-> Len("cat1")] }

\* params.companionId of a page request ("new" is no row's id)
CompanionIds == {"c1", "c2", "new"}

\* what the user can type or pick in a field
Inputs(f) ==
  CASE f = "categoryId" -> {Len(c.id) : c \in Categories}
    [] f = "instructions" -> {InstructionsMin - 1, InstructionsMin}
    [] f = "seed" -> {SeedMin - 1, SeedMin}
    [] OTHER -> {0, 1}

\* outcomes of fetch: it resolves with a response of any status, or rejects
Statuses == {200, 500}
ErrorMessages == {"Failed to fetch"}

VARIABLES
  page,          \* what the browser shows: "start", "sign-in", "form", "root"
  userId,        \* auth().userId of the latest CompanionIdPage request
  requestedId,   \* params.companionId of that request
  queries,       \* database queries the latest page request executed
  initialData,   \* prop of the rendered form
  values,        \* form values
  errors,        \* formState.errors: field -> message
  isSubmitting,  \* formState.isSubmitting
  attempts,      \* handleSubmit invocations on this form
  requests,      \* HTTP requests issued by this form, in order
  pending,       \* requests in flight
  settled,       \* outcomes of the requests that completed, in order
  toasts,        \* notifications shown, in order
  refreshes,     \* router.refresh() calls
  pushes         \* router.push() targets, in order

vars == <<page, userId, requestedId, queries, initialData, values, errors,
          isSubmitting, attempts, requests, pending, settled, toasts,
          refreshes, pushes>>

\* ------------------------------------------------------------- formSchema

\* z.string(): a value that is no string is an invalid_type issue, whose
\* message for undefined is zod's "Required", whatever message min() was given
RequiredMessage == "Required"

\* (mutation) min() that lets a string one character short through
MinStringOffByOne(v, min, message) ==
  IF v = Undefined THEN RequiredMessage
  ELSE IF v < min - 1 THEN message
  ELSE NoError

\* z.string().min(min, {message})
MinString(v, min, message) ==
  IF v = Undefined THEN RequiredMessage
  ELSE IF v < min THEN message
  ELSE NoError

\* formSchema, field by field: the message of the field's issue, or NoError
formSchema(f, v) ==
  CASE f = "name" -> MinString(v, NameMin, "Name is required")
    [] f = "description" -> MinString(v, DescriptionMin, "Description is required")
    [] f = "instructions" ->
         MinString(v, InstructionsMin, "Instructions require at least 200 characters")
    [] f = "seed" -> MinString(v, SeedMin, "Seed require at least 200 characters")
    [] f = "src" -> MinString(v, SrcMin, "Image is required")
    [] f = "categoryId" -> MinString(v, CategoryIdMin, "Category is required")

\* zodResolver(formSchema): the errors of a set of values
zodResolver(vals) == [f \in Fields |-> formSchema(f, vals[f])]

NoErrors == [f \in Fields |-> NoError]

Passes(vals) == zodResolver(vals) = NoErrors

\* ---------------------------------------------------------- CompanionForm

\* useForm defaultValues: initialData || { name: '', ..., categoryId: undefined }
defaultValues(init) ==
  IF init # null
  THEN [f \in Fields |-> init[f]]
  ELSE [f \in Fields |-> IF f = "categoryId" THEN Undefined ELSE 0]

\* const isLoading = form.formState.isSubmitting
isLoading == isSubmitting

\* (mutation) a submit button that stays enabled while submitting
ButtonNeverDisabled == FALSE

\* <Button size="lg" disabled={isLoading}>: the only way to submit the form
ButtonDisabled == isLoading

\* disabled={isLoading} on ImageUpload, Input, Select and Textarea
InputDisabled(f) == isLoading

\* the fields whose FormItem renders a <FormMessage />
FormMessageFields == {"name", "description", "categoryId", "instructions", "seed"}

\* the inline message the form displays for field f under errors errs
FormMessage(errs, f) == IF f \in FormMessageFields THEN errs[f] ELSE NoError

\* (mutation) onSubmit without the initialData branch
RequestAlwaysPost(init) == [method |-> "POST", path |-> "/api/companion", id |-> ""]

\* the fetch call of onSubmit: PATCH to the record's endpoint, or POST
Request(init) ==
  IF init # null
  THEN [method |-> "PATCH", path |-> "/api/companion/", id |-> init.id]
  ELSE [method |-> "POST", path |-> "/api/companion", id |-> ""]

\* toast({ description: 'Success!' })
SuccessToast == [variant |-> "default", description |-> "Success!"]

\* (mutation) a catch block that drops the error's message
CatchToastGeneric(e) == [variant |-> "destructive", description |-> "Something went wrong"]

\* catch (e) { toast({ variant: 'destructive', description: e.message }) }
CatchToast(e) == [variant |-> "destructive", description |-> e.message]

\* ------------------------------------------------------------ page layer

\* (mutation) a page without the authentication guard
UnauthenticatedNever(u) == FALSE

\* if (!userId) return redirectToSignIn()
Unauthenticated(u) == u = NoUser

\* (mutation) a lookup by id alone
findUniqueAnyOwner(id, u) ==
  LET found == {c \in Companions : c.id = id}
  IN IF found = {} THEN null ELSE CHOOSE c \in found : TRUE

\* prismadb.companion.findUnique({ where: { id, userId } })
findUnique(id, u) ==
  LET found == {c \in Companions : c.id = id /\ c.userId = u}
  IN IF found = {} THEN null ELSE CHOOSE c \in found : TRUE

\* RootPage: one category.findMany(), then the search input and the categories
RootPage == <<"category.findMany">>

\* ------------------------------------------------------------------ Init

Init ==
  /\ page = "start"
  /\ userId = NoUser
  /\ requestedId = "new"
  /\ queries = <<>>
  /\ initialData = null
  /\ values = defaultValues(null)
  /\ errors = NoErrors
  /\ isSubmitting = FALSE
  /\ attempts = 0
  /\ requests = <<>>
  /\ pending = <<>>
  /\ settled = <<>>
  /\ toasts = <<>>
  /\ refreshes = 0
  /\ pushes = <<>>

\* a freshly mounted form
Mount(init) ==
  /\ values' = defaultValues(init)
  /\ errors' = NoErrors
  /\ isSubmitting' = FALSE
  /\ attempts' = 0
  /\ requests' = <<>>
  /\ pending' = <<>>
  /\ settled' = <<>>
  /\ toasts' = <<>>
  /\ refreshes' = 0
  /\ pushes' = <<>>

\* --------------------------------------------------------------- actions

\* a request for /companion/[companionId] by a browser whose session is u
CompanionIdPage(u, companionId) ==
  /\ pending = <<>>
  /\ userId' = u
  /\ requestedId' = companionId
  /\ IF Unauthenticated(u)
     THEN /\ page' = "sign-in"
          /\ queries' = <<>>
          /\ initialData' = null
          /\ Mount(null)
     ELSE LET companion == findUnique(companionId, u)
          IN /\ queries' = <<"companion.findUnique", "category.findMany">>
             /\ initialData' = companion
             /\ page' = "form"
             /\ Mount(companion)

\* the user changes a field; after a first submit the field is validated again
\* on every change (useForm's default reValidateMode)
SetField(f, v) ==
  /\ page = "form"
  /\ ~InputDisabled(f)
  /\ values[f] # v
  /\ values' = [values EXCEPT ![f] = v]
  /\ errors' = IF attempts > 0 THEN [errors EXCEPT ![f] = formSchema(f, v)] ELSE errors
  /\ UNCHANGED <<page, userId, requestedId, queries, initialData, isSubmitting,
                 attempts, requests, pending, settled, toasts, refreshes, pushes>>

CanSubmit == page = "form" /\ ~ButtonDisabled /\ attempts < MaxSubmits

\* form.handleSubmit(onSubmit) on values the resolver rejects: onSubmit is not called
HandleSubmitInvalid ==
  /\ CanSubmit
  /\ ~Passes(values)
  /\ attempts' = attempts + 1
  /\ errors' = zodResolver(values)
  /\ isSubmitting' = FALSE
  /\ UNCHANGED <<page, userId, requestedId, queries, initialData, values,
                 requests, pending, settled, toasts, refreshes, pushes>>

\* form.handleSubmit(onSubmit) on valid values: onSubmit runs up to its await fetch
HandleSubmitValid ==
  /\ CanSubmit
  /\ Passes(values)
  /\ attempts' = attempts + 1
  /\ errors' = NoErrors
  /\ isSubmitting' = TRUE
  /\ requests' = Append(requests, Request(initialData))
  /\ pending' = Append(pending, Request(initialData))
  /\ UNCHANGED <<page, userId, requestedId, queries, initialData, values,
                 settled, toasts, refreshes, pushes>>

Remove(s, i) == [j \in 1..(Len(s) - 1) |-> IF j < i THEN s[j] ELSE s[j + 1]]

\* the awaited fetch resolves with a response of any status: the rest of the try block
FetchResolve(i, status) ==
  /\ i \in 1..Len(pending)
  /\ pending' = Remove(pending, i)
  /\ settled' = Append(settled, [kind |-> "response", status |-> status, message |-> ""])
  /\ toasts' = Append(toasts, SuccessToast)
  /\ refreshes' = refreshes + 1
  /\ pushes' = Append(pushes, "/")
  /\ page' = "root"
  /\ queries' = RootPage
  /\ isSubmitting' = FALSE
  /\ UNCHANGED <<userId, requestedId, initialData, values, errors, attempts, requests>>

\* the awaited fetch rejects with an error: the catch block
FetchReject(i, message) ==
  /\ i \in 1..Len(pending)
  /\ pending' = Remove(pending, i)
  /\ settled' = Append(settled, [kind |-> "rejected", status |-> 0, message |-> message])
  /\ toasts' = Append(toasts, CatchToast([message |-> message]))
  /\ isSubmitting' = FALSE
  /\ UNCHANGED <<page, userId, requestedId, queries, initialData, values, errors,
                 attempts, requests, refreshes, pushes>>

Next ==
  \/ \E u \in Users \cup {NoUser}, c \in CompanionIds : CompanionIdPage(u, c)
  \/ \E f \in Fields : \E v \in Inputs(f) : SetField(f, v)
  \/ HandleSubmitInvalid
  \/ HandleSubmitValid
  \/ \E i \in 1..Len(pending), s \in Statuses : FetchResolve(i, s)
  \/ \E i \in 1..Len(pending), m \in ErrorMessages : FetchReject(i, m)

Spec == Init /\ [][Next]_vars

\* ---------------------------------------------------------------- claims

\* a step that is one invocation of form.handleSubmit(onSubmit)
SubmitStep == attempts' = attempts + 1

\* a step in which one request completes, and its outcome
SettleStep == Len(settled') = Len(settled) + 1
Outcome == settled'[Len(settled')]

\* the API route answered with a success status
Succeeded(o) == o.kind = "response" /\ o.status \in 200..299
\* the request failed: a network error, or a failure status from the API route
Failed(o) == o.kind = "rejected" \/ (o.kind = "response" /\ o.status \notin 200..299)

\* C1: every submission that passes validation issues exactly one request, a
\* PATCH to /api/companion/{initialData.id} when initialData is present and a
\* POST to /api/companion when it is null; no other step issues a request.
C1_OneRequestPatchOrPost ==
  [][ /\ (SubmitStep /\ Passes(values)) =>
           /\ Len(requests') = Len(requests) + 1
           /\ SubSeq(requests', 1, Len(requests)) = requests
           /\ requests'[Len(requests')] =
                IF initialData # null
                THEN [method |-> "PATCH", path |-> "/api/companion/", id |-> initialData.id]
                ELSE [method |-> "POST", path |-> "/api/companion", id |-> ""]
      /\ Len(requests') > Len(requests) => (SubmitStep /\ Passes(values))
    ]_vars

\* C1 witness: an edit-mode form has issued its PATCH
C1_Witness ==
  /\ initialData # null
  /\ Len(requests) = 1
  /\ requests[1].method = "PATCH"
  /\ requests[1].id = requestedId

\* C2: a submission whose instructions or seed is shorter than 200 characters
\* is rejected with that field's message displayed, and no request,
\* notification or navigation occurs; exactly 200 characters is accepted.
C2_ShortTextRejected ==
  [][ SubmitStep =>
        /\ (values.instructions # Undefined /\ values.instructions < 200) =>
             /\ FormMessage(errors', "instructions") =
                  "Instructions require at least 200 characters"
             /\ UNCHANGED <<requests, pending, toasts, refreshes, pushes, page>>
        /\ (values.seed # Undefined /\ values.seed < 200) =>
             /\ FormMessage(errors', "seed") = "Seed require at least 200 characters"
             /\ UNCHANGED <<requests, pending, toasts, refreshes, pushes, page>>
        /\ values.instructions = 200 => errors'.instructions = NoError
        /\ values.seed = 200 => errors'.seed = NoError
    ]_vars

\* C2 witness: a submit with 199 characters of instructions and 200 of seed
\* was rejected for the instructions alone, with nothing sent
C2_Witness ==
  /\ attempts > 0
  /\ values.instructions = 199
  /\ values.seed = 200
  /\ errors.instructions = "Instructions require at least 200 characters"
  /\ errors.seed = NoError
  /\ requests = <<>>
  /\ toasts = <<>>

IsEmpty(v) == v = Undefined \/ v = 0

OwnMessage(f) ==
  CASE f = "name" -> "Name is required"
    [] f = "description" -> "Description is required"
    [] f = "src" -> "Image is required"
    [] f = "categoryId" -> "Category is required"

\* C3: a submission with an empty name, description, src or categoryId (the
\* create-mode defaults included, where categoryId is undefined) is rejected
\* with that field's own message, and no request is issued.
C3_EmptyFieldOwnMessage ==
  [][ SubmitStep =>
        \A f \in {"name", "description", "src", "categoryId"} :
          IsEmpty(values[f]) => (errors'[f] = OwnMessage(f) /\ requests' = requests)
    ]_vars

\* C4: the success notification and the navigation to the root page follow
\* the completed request of a submission that succeeded, never precede it, and
\* happen for no other submission.
C4_SuccessOnlyWhenSucceeded ==
  /\ Len(toasts) = Len(settled)
  /\ Len(pushes) <= Len(settled)
  /\ \A i \in 1..Len(settled) :
       /\ Succeeded(settled[i]) => toasts[i] = SuccessToast
       /\ toasts[i] = SuccessToast => Succeeded(settled[i])
  /\ (\E i \in 1..Len(settled) : Succeeded(settled[i])) => (page = "root" /\ pushes = <<"/">>)
  /\ (page = "root" \/ pushes # <<>>) => \E i \in 1..Len(settled) : Succeeded(settled[i])

\* C5: when the fetch promise rejects, exactly one destructive notification
\* carrying the error's message is shown, and nothing else happens: no
\* success notification, no refresh, no navigation, no further request.
C5_RejectedFetch ==
  [][ (SettleStep /\ Outcome.kind = "rejected") =>
        /\ toasts' = Append(toasts, [variant |-> "destructive",
                                     description |-> Outcome.message])
        /\ page' = "form"
        /\ UNCHANGED <<page, refreshes, pushes, requests>>
        /\ Len(pending') = Len(pending) - 1
    ]_vars

\* C5 witness: a request was rejected and the user is on the form with the
\* destructive notification
C5_Witness ==
  /\ Len(settled) = 1
  /\ settled[1].kind = "rejected"
  /\ toasts = <<[variant |-> "destructive", description |-> "Failed to fetch"]>>
  /\ page = "form"
  /\ pending = <<>>

\* C6: every failed request, a network error or a failure status from the API
\* route, is shown as a destructive notification and leaves the user on the
\* form, with no success notification and no navigation.
C6_FailureShownAsDestructive ==
  /\ \A i \in 1..Len(settled) :
       Failed(settled[i]) =>
         /\ i <= Len(toasts)
         /\ toasts[i].variant = "destructive"
  /\ (settled # <<>> /\ \A i \in 1..Len(settled) : Failed(settled[i])) =>
       (page = "form" /\ pushes = <<>>)

\* C7: an unauthenticated request for the page ends in the redirect to
\* sign-in with no query executed and no form rendered; an authenticated one
\* is never redirected to sign-in.
C7_AuthGuard ==
  /\ (userId = NoUser /\ page # "start") =>
       (page = "sign-in" /\ queries = <<>> /\ initialData = null)
  /\ userId # NoUser => page # "sign-in"

\* C7 witness: the redirect has happened
C7_Witness == page = "sign-in" /\ userId = NoUser /\ requestedId = "c1"

\* C8: the initialData of a form rendered for user u and id i is null or the
\* companion with id i owned by u; every PATCH of the form targets a record
\* owned by u; a request for another user's id, or for no record's id, gives
\* a create-mode form whose requests are POSTs.
C8_OwnershipScoping ==
  page \in {"form", "root"} =>
    /\ initialData # null => (initialData.id = requestedId /\ initialData.userId = userId)
    /\ \A i \in 1..Len(requests) :
         requests[i].method = "PATCH" =>
           \E c \in Companions : c.id = requests[i].id /\ c.userId = userId
    /\ (~ \E c \in Companions : c.id = requestedId /\ c.userId = userId) =>
         /\ initialData = null
         /\ \A i \in 1..Len(requests) : requests[i].method = "POST"

\* C8 witness: u1 asked for u2's companion and the form has POSTed
C8_Witness ==
  /\ userId = "u1"
  /\ requestedId = "c2"
  /\ Len(requests) = 1
  /\ requests[1].method = "POST"

\* C9: whenever one of the six validated fields carries a validation error,
\* the form displays a message for that field, and no request has been
\* issued by the rejected submit.
C9_EveryErrorDisplayed ==
  [][ SubmitStep =>
        \A f \in Fields :
          zodResolver(values)[f] # NoError =>
            (FormMessage(errors', f) # NoError /\ requests' = requests)
    ]_vars

\* C10: at most one request of the form is in flight, and while one is, the
\* submit button and every input are disabled.
C10_OneRequestInFlight ==
  /\ Len(pending) <= 1
  /\ pending # <<>> => (ButtonDisabled /\ \A f \in Fields : InputDisabled(f))

\* C10 witness: a request is in flight while the form could still be submitted
\* again, were the button enabled
C10_Witness == Len(pending) = 1 /\ attempts < MaxSubmits /\ page = "form"

====
